---- MODULE Spec2Model ----
(***************************************************************************)
(* A model of the e-ink display scheduler (src/scheduler.py): the config   *)
(* loader of EinkScheduler, the startup step and the periodic tick of      *)
(* EinkScheduler.run, and the randomized fallback round                    *)
(* (run_random_function), one draw per step; and of the schedule parser    *)
(* (src/config_file_handler.py), whose functions are applied to inputs     *)
(* drawn by HandlerInit.                                                   *)
(*                                                                         *)
(* Time is counted in units of CHECK_INTERVAL_SECONDS since Monday 00:00.  *)
(* An hour is UnitsPerHour units long (120 in the program; the model uses  *)
(* a coarser hour to keep the clock finite).                               *)
(*                                                                         *)
(* Python's Optional values are sequences of length at most one:           *)
(* None is <<>> and a value v is <<v>>.                                    *)
(***************************************************************************)
EXTENDS Integers, Sequences, FiniteSets, TLC

VARIABLES
    config,                       \* the content of CONFIG_FILE (environment)
    AVAILABLE_DISPLAY_FUNCTIONS,  \* the fallback pool, a list that may repeat a function
    behaviour,                    \* what each display function does when called (environment)
    schedules,                    \* self.schedules
    last_update_time,             \* self.last_update_time
    current_schedule,             \* self.current_schedule
    now,                          \* the local `now` of run()
    pc,                           \* position in run(): init, startup, sleep, round, exited
    exit_code,                    \* the process exit status, once pc = "exited"
    attempted,                    \* the local `attempted` of run_random_function
    invoked,                      \* the calls of display functions in the current step of run(),
                                  \* in order, each with the value run_display_function returned
    gateway,                      \* display gateway calls made in the current step of run()
    branch,                       \* the branch of run() taken by the current step
    call                          \* a call of a function of config_file_handler.py: the
                                  \* function, its argument and, once made, what it returned

vars == <<config, AVAILABLE_DISPLAY_FUNCTIONS, behaviour, schedules, last_update_time,
          current_schedule, now, pc, exit_code, attempted, invoked, gateway, branch, call>>

----------------------------------------------------------------------------
(* Bounds of the model *)

UnitsPerHour == 3      \* clock units in one hour
MaxTime == 11          \* the clock stops here
MaxStart == 7          \* latest start of the process
MaxStep == 4           \* longest time between two readings of the clock by run()
MaxPool == 3           \* longest fallback pool
MaxSpecLen == 3        \* longest day-spec of those tried in full
MaxLines == 2          \* most lines of a file given to load_config
MaxScheds == 2         \* most schedules of a list given to check_overlaps
MaxDays == 2           \* most weekdays of a schedule given to is_active and get_time_slots

(* Program constants *)

RANDOM_UPDATE_INTERVAL_MINUTES == 1
CHECK_INTERVAL_SECONDS == 30
HOURS_PER_DAY == 24
DAYS_PER_WEEK == 7

\* timedelta(minutes=RANDOM_UPDATE_INTERVAL_MINUTES), in clock units
RandomInterval == (RANDOM_UPDATE_INTERVAL_MINUTES * 60) \div CHECK_INTERVAL_SECONDS

----------------------------------------------------------------------------
(* Values *)

None == <<>>
Some(v) == <<v>>

\* The keys of FUNCTION_MAP and the callables they name.
FUNCTION_MAP ==
    [n \in {"xkcd_todays_image", "xkcd_random_image"} |-> n]

Funcs == {FUNCTION_MAP[n] : n \in DOMAIN FUNCTION_MAP}

\* A name that the config may use and FUNCTION_MAP does not hold.
UnknownName == "random_image_from_dropbox"

\* No call of config_file_handler.py: the engine of scheduler.py makes none.
NoCall == [fn |-> "none"]

\* The sentinel an action returns to ask for a blank display: a value that
\* is neither None nor the path of an image.
ShutdownSignal == "ShutdownSignal"

\* dt.weekday() and dt.hour of a clock reading
weekday(dt) == (dt \div (HOURS_PER_DAY * UnitsPerHour)) % DAYS_PER_WEEK
hour(dt) == (dt \div UnitsPerHour) % HOURS_PER_DAY

SeqMin(S) == CHOOSE i \in S : \A j \in S : i <= j

Range(s) == {s[i] : i \in DOMAIN s}

----------------------------------------------------------------------------
(* The config file and EinkScheduler.load_config *)

\* A line of the file after strip() and split(): its kind, the number of
\* fields, and the four fields. A numeric field is None when int() raises
\* ValueError on it and Some(k) when int() returns k.
Line(d, hs, he, f) ==
    [kind |-> "data", nparts |-> 4, day_str |-> Some(d),
     hour_start_str |-> Some(hs), hour_end_str |-> Some(he), func_name |-> f]

Comment == [kind |-> "comment", nparts |-> 1, day_str |-> None,
            hour_start_str |-> None, hour_end_str |-> None, func_name |-> ""]

Schedule(day, hs, he, f) ==
    [day_of_week |-> day, hour_start |-> hs, hour_end |-> he, function_name |-> f]

\* Schedule.is_active
is_active(s, dt) ==
    /\ weekday(dt) = s.day_of_week
    /\ s.hour_start <= hour(dt)
    /\ hour(dt) < s.hour_end

\* EinkScheduler.check_overlaps
check_overlaps(scheds) ==
    \A i \in 1..Len(scheds) : \A j \in (i+1)..Len(scheds) :
        LET s1 == scheds[i]
            s2 == scheds[j]
        IN  s1.day_of_week = s2.day_of_week
                => (s1.hour_end <= s2.hour_start \/ s2.hour_end <= s1.hour_start)

\* A variant of LineOk without the test `hour_start >= hour_end`.
LineOkSpanning(line) ==
    /\ line.nparts = 4
    /\ line.day_str # None /\ line.hour_start_str # None /\ line.hour_end_str # None
    /\ LET day == line.day_str[1]
           hour_start == line.hour_start_str[1]
           hour_end == line.hour_end_str[1]
       IN  /\ 0 <= day /\ day <= 6
           /\ 0 <= hour_start /\ hour_start < HOURS_PER_DAY
           /\ 0 <= hour_end /\ hour_end <= HOURS_PER_DAY
           /\ line.func_name \in DOMAIN FUNCTION_MAP

\* The checks of one data line, in the order of the code; TRUE when the
\* line is accepted.
LineOk(line) ==
    /\ line.nparts = 4
    /\ line.day_str # None /\ line.hour_start_str # None /\ line.hour_end_str # None
    /\ LET day == line.day_str[1]
           hour_start == line.hour_start_str[1]
           hour_end == line.hour_end_str[1]
       IN  /\ 0 <= day /\ day <= 6
           /\ 0 <= hour_start /\ hour_start < HOURS_PER_DAY
           /\ 0 <= hour_end /\ hour_end <= HOURS_PER_DAY
           /\ ~(hour_start >= hour_end)
           /\ line.func_name \in DOMAIN FUNCTION_MAP

RECURSIVE ParseLines(_, _, _)
\* The loop over the lines of the file: None at the first rejected line,
\* else the list of the schedules read.
ParseLines(lines, i, acc) ==
    IF i > Len(lines) THEN Some(acc)
    ELSE LET line == lines[i] IN
         IF line.kind # "data" THEN ParseLines(lines, i + 1, acc)
         ELSE IF ~LineOk(line) THEN None
         ELSE ParseLines(lines, i + 1,
                  Append(acc, Schedule(line.day_str[1], line.hour_start_str[1],
                                       line.hour_end_str[1], line.func_name)))

\* A variant of load_config: a file that cannot be loaded gives an empty
\* list of schedules.
load_config_lenient(file) ==
    IF ~file.exists THEN Some(<<>>)
    ELSE LET parsed == ParseLines(file.lines, 1, <<>>) IN
         IF parsed = None THEN Some(<<>>)
         ELSE IF ~check_overlaps(parsed[1]) THEN Some(<<>>)
         ELSE parsed

\* EinkScheduler.load_config: None when it returns False, else Some(the
\* list assigned to self.schedules).
load_config(file) ==
    IF ~file.exists THEN None
    ELSE LET parsed == ParseLines(file.lines, 1, <<>>) IN
         IF parsed = None THEN None
         ELSE IF ~check_overlaps(parsed[1]) THEN None
         ELSE parsed

\* A variant of LoadedSchedules: a failed load empties the list.
LoadedSchedulesCleared(held, loaded) ==
    IF loaded = None THEN <<>> ELSE loaded[1]

\* self.schedules after load_config: `self.schedules = schedules` is reached
\* only when every line and the overlap check passed; held is the list
\* before the call.
LoadedSchedules(held, loaded) ==
    IF loaded = None THEN held ELSE loaded[1]

\* The call self.load_config(): the value returned and self.schedules after it
engine_load_config(held, file) ==
    LET loaded == load_config(file) IN
    [ret |-> loaded # None, schedules |-> LoadedSchedules(held, loaded)]

File(lines) == [exists |-> TRUE, lines |-> lines]

\* The config files the engine is started on.
ConfigFiles ==
    { [exists |-> FALSE, lines |-> <<>>],
      File(<<>>),
      File(<<Comment, Line(0, 1, 2, "xkcd_todays_image")>>),
      File(<<Line(0, 1, 2, "xkcd_todays_image"), Line(0, 2, 3, "xkcd_random_image")>>),
      File(<<Line(0, 2, 3, "xkcd_random_image"), Line(1, 0, 2, "xkcd_todays_image")>>),
      File(<<Line(0, 0, 2, "xkcd_todays_image"), Line(0, 1, 3, "xkcd_random_image")>>),
      File(<<Line(0, 2, 2, "xkcd_todays_image")>>),
      File(<<Line(0, 1, 2, UnknownName)>>) }

----------------------------------------------------------------------------
(* The engine's helpers *)

SeqMax(S) == CHOOSE i \in S : \A j \in S : i >= j

\* A variant of get_active_schedule: the last active schedule of the list.
get_active_schedule_last(scheds, dt) ==
    LET act == {i \in 1..Len(scheds) : is_active(scheds[i], dt)}
    IN  IF act = {} THEN None ELSE Some(scheds[SeqMax(act)])

\* EinkScheduler.get_active_schedule
get_active_schedule(scheds, dt) ==
    LET act == {i \in 1..Len(scheds) : is_active(scheds[i], dt)}
    IN  IF act = {} THEN None ELSE Some(scheds[SeqMin(act)])

\* What a call of a display function can return, by its behaviour: the
\* path of the image it made, the sentinel, or nothing (it returned None or
\* raised). A flaky function succeeds at some calls and fails at others.
Returns(func) ==
    CASE behaviour[func] = "ImagePath"      -> {Some(func)}
      [] behaviour[func] = "ShutdownSignal" -> {Some(ShutdownSignal)}
      [] behaviour[func] = "Failure"        -> {None}
      [] behaviour[func] = "Flaky"          -> {None, Some(func)}

Behaviours == {"ImagePath", "ShutdownSignal", "Failure", "Flaky"}

\* EinkScheduler.run_display_function: the values it can return. An
\* exception of the function is caught and becomes None.
run_display_function(func) == Returns(func)

\* A variant of Truthy: the test is dropped and every result is shown.
TruthyAlways(image_path) == TRUE

\* `if image_path:` in run()
Truthy(image_path) == image_path # None

\* `if image_path is not None:` in run_random_function
IsNotNone(image_path) == image_path # None

\* A variant of LoopCond: the loop stops one attempt early.
LoopCondOffByOne(att, pool) == Cardinality(att) < Len(pool) - 1

\* `while len(attempted) < len(AVAILABLE_DISPLAY_FUNCTIONS)`
LoopCond(att, pool) == Cardinality(att) < Len(pool)

\* A variant of AlreadyAttempted: a drawn function is never skipped.
AlreadyAttemptedNever(func, att) == FALSE

\* `if func in attempted: continue`
AlreadyAttempted(func, att) == func \in att

\* One entry of invoked
Call(func, image_path) == [func |-> func, result |-> image_path]

\* run(), lines 301-303: at startup self.current_schedule is assigned inside
\* `if image_path:`, after update_display returned.
StartupCurrentSchedule(active_schedule, image_path, cur) ==
    IF Truthy(image_path) THEN active_schedule ELSE cur

\* A variant of EnterCurrentSchedule: the assignment sits inside
\* `if image_path:`, as it does at startup.
EnterCurrentScheduleOnSuccess(active_schedule, image_path, cur) ==
    IF image_path # None THEN active_schedule ELSE cur

\* A variant of EnterCurrentSchedule: the assignment is left out.
EnterCurrentScheduleKept(active_schedule, image_path, cur) == cur

\* run(), lines 325-327: in the loop self.current_schedule is assigned after
\* the `if image_path:` block.
EnterCurrentSchedule(active_schedule, image_path, cur) == active_schedule

\* EinkScheduler.clear_display: the gateway call it makes. run() never
\* calls it.
clear_display(ok) == [op |-> "clear", arg |-> None, raised |-> ~ok]

\* A variant of should_update_random: the interval must be exceeded.
should_update_random_strict(last, dt) ==
    IF last = None THEN TRUE
    ELSE dt - last[1] > RandomInterval

\* A variant of should_update_random: a round is always due.
should_update_random_always(last, dt) == TRUE

\* EinkScheduler.should_update_random, with the clock reading dt
should_update_random(last, dt) ==
    IF last = None THEN TRUE
    ELSE dt - last[1] >= RandomInterval

\* A variant of EnterCond: the active schedule is entered at every tick.
EnterCondAlways(active_schedule, cur) == active_schedule # None

\* run(), line 321: `if active_schedule and active_schedule != self.current_schedule`
EnterCond(active_schedule, cur) ==
    active_schedule # None /\ active_schedule # cur

\* A variant of ExitCond: `is None` for `is not None`.
ExitCondInverted(active_schedule, cur) ==
    active_schedule = None /\ cur = None

\* run(), line 331: `elif not active_schedule and self.current_schedule is not None`
ExitCond(active_schedule, cur) ==
    active_schedule = None /\ cur # None

\* A variant of RandomCond: the round is due whether or not a schedule is
\* active.
RandomCondAnytime(active_schedule, last, dt) == should_update_random(last, dt)

\* run(), line 341: `elif not active_schedule and self.should_update_random()`
RandomCond(active_schedule, last, dt) ==
    active_schedule = None /\ should_update_random(last, dt)

\* A variant of update_display_raises: the exception is logged and not
\* raised again.
update_display_swallows(ok) == FALSE

\* EinkScheduler.update_display: TRUE when the call of eink_update raised,
\* which update_display logs and raises again.
update_display_raises(ok) == ~ok

\* The gateway calls of `if image_path: self.update_display(image_path)`;
\* ok tells whether eink_update returns.
Calls(image_path, ok) ==
    IF Truthy(image_path)
        THEN << [op |-> "update", arg |-> image_path, raised |-> ~ok] >>
        ELSE << >>

\* The ways the gateway call for image_path can end: there is a call, and a
\* choice, only when image_path is shown.
Oks(image_path) == IF Truthy(image_path) THEN BOOLEAN ELSE {TRUE}

\* An exception leaves run(): at startup it is not caught, in the loop it
\* is caught and sys.exit(1) is called.
Fatal(image_path, ok) == Truthy(image_path) /\ update_display_raises(ok)

----------------------------------------------------------------------------
(* config_file_handler.py: strings *)

\* A string is the sequence of its characters.
Digits == <<"0", "1", "2", "3", "4", "5", "6", "7", "8", "9">>

IsDigit(c) == \E i \in 1..Len(Digits) : Digits[i] = c

DigitVal(c) == (CHOOSE i \in 1..Len(Digits) : Digits[i] = c) - 1

\* s[a..b]
Slice(s, a, b) == [i \in 1..(b - a + 1) |-> s[a + i - 1]]

\* `c in s`
Contains(s, c) == \E i \in 1..Len(s) : s[i] = c

RECURSIVE str_split(_, _)
\* s.split(c): the pieces of s between the occurrences of c; one piece
\* more than there are occurrences, empty pieces included.
str_split(s, c) ==
    IF ~Contains(s, c) THEN << s >>
    ELSE LET k == SeqMin({i \in 1..Len(s) : s[i] = c})
         IN  << Slice(s, 1, k - 1) >> \o str_split(Slice(s, k + 1, Len(s)), c)

RECURSIVE str_strip(_)
\* s.strip(): s without its leading and trailing blanks
str_strip(s) ==
    IF s = <<>> THEN s
    ELSE IF s[1] = " " THEN str_strip(Slice(s, 2, Len(s)))
    ELSE IF s[Len(s)] = " " THEN str_strip(Slice(s, 1, Len(s) - 1))
    ELSE s

RECURSIVE DecimalValue(_)
DecimalValue(s) ==
    IF s = <<>> THEN 0
    ELSE 10 * DecimalValue(Slice(s, 1, Len(s) - 1)) + DigitVal(s[Len(s)])

\* int(s), for a string of digits, separators, "-" and "*": None when int
\* raises ValueError, else Some(the number s writes in base ten, negative
\* after a leading "-").
int(s) ==
    IF s # <<>> /\ \A i \in 1..Len(s) : IsDigit(s[i])
        THEN Some(DecimalValue(s))
    ELSE IF Len(s) > 1 /\ s[1] = "-" /\ \A i \in 2..Len(s) : IsDigit(s[i])
        THEN Some(0 - DecimalValue(Slice(s, 2, Len(s))))
        ELSE None

\* range(a, b) as a set
range(a, b) == {k \in a..(b - 1) : TRUE}

RECURSIVE SortedSeq(_)
\* sorted(list(S)) for a set of integers
SortedSeq(S) ==
    IF S = {} THEN <<>>
    ELSE LET m == SeqMin(S) IN << m >> \o SortedSeq(S \ {m})

----------------------------------------------------------------------------
(* config_file_handler.py: parse_days *)

\* One pass of the loop of parse_days over `parts`: None when the part
\* raises ValueError, else Some(the days the part adds).
part_days(p) ==
    LET part == str_strip(p) IN
    IF Contains(part, "-")
       THEN LET pieces == str_split(part, "-") IN
            IF Len(pieces) # 2 THEN None          \* `start, end = ...` cannot unpack
            ELSE LET start == int(pieces[1])
                     end == int(pieces[2])
                 IN  IF start = None \/ end = None THEN None
                     ELSE IF ~(0 <= start[1] /\ start[1] <= 6 /\ 0 <= end[1] /\ end[1] <= 6)
                             THEN None
                     ELSE IF start[1] > end[1] THEN None
                     ELSE Some(range(start[1], end[1] + 1))
       ELSE LET day == int(part) IN
            IF day = None THEN None
            ELSE IF ~(0 <= day[1] /\ day[1] <= 6) THEN None
            ELSE Some({day[1]})

RECURSIVE parse_parts_partial(_, _, _)
\* A variant of parse_parts: the loop stops at a part that raises and the
\* days gathered so far are returned.
parse_parts_partial(parts, i, days) ==
    IF i > Len(parts) THEN Some(days)
    ELSE LET d == part_days(parts[i]) IN
         IF d = None THEN Some(days)
         ELSE parse_parts_partial(parts, i + 1, days \cup d[1])

RECURSIVE parse_parts(_, _, _)
\* The loop of parse_days: the exception of a part ends the call, and the
\* days gathered so far are lost with it.
parse_parts(parts, i, days) ==
    IF i > Len(parts) THEN Some(days)
    ELSE LET d == part_days(parts[i]) IN
         IF d = None THEN None
         ELSE parse_parts(parts, i + 1, days \cup d[1])

\* parse_days(days_str): None when it raises ValueError, else Some(the
\* list it returns).
parse_days(days_str) ==
    IF days_str = << "*" >> THEN Some(SortedSeq(range(0, DAYS_PER_WEEK)))
    ELSE LET days == parse_parts(str_split(days_str, ","), 1, {}) IN
         IF days = None THEN None
         ELSE Some(SortedSeq(days[1]))

----------------------------------------------------------------------------
(* config_file_handler.py: Schedule, is_active, get_time_slots *)

\* The dataclass Schedule of config_file_handler.py; `days` is a list.
HandlerSchedule(days, hour_start, hour_end, func_name, spans_midnight) ==
    [days |-> days, hour_start |-> hour_start, hour_end |-> hour_end,
     func_name |-> func_name, spans_midnight |-> spans_midnight]

\* A variant of Schedule.is_active that forgets the hours after midnight.
handler_is_active_same_day(self, current_day, current_hour) ==
    IF self.spans_midnight
       THEN current_day \in Range(self.days) /\ current_hour >= self.hour_start
       ELSE /\ current_day \in Range(self.days)
            /\ self.hour_start <= current_hour /\ current_hour < self.hour_end

\* Schedule.is_active(dt), dt given by its weekday and hour
handler_is_active(self, current_day, current_hour) ==
    IF self.spans_midnight
       THEN IF current_day \in Range(self.days) /\ current_hour >= self.hour_start
               THEN TRUE
            ELSE LET prev_day == (current_day - 1) % DAYS_PER_WEEK IN
                 IF prev_day \in Range(self.days) /\ current_hour < self.hour_end
                    THEN TRUE
                    ELSE FALSE
       ELSE /\ current_day \in Range(self.days)
            /\ self.hour_start <= current_hour /\ current_hour < self.hour_end

\* A variant of get_time_slots that keeps the early hours on the starting day.
get_time_slots_same_day(schedule) ==
    IF schedule.spans_midnight
       THEN UNION {{<<day, h>> : h \in range(schedule.hour_start, HOURS_PER_DAY)}
                     \cup {<<day, h>> : h \in range(0, schedule.hour_end)}
                   : day \in Range(schedule.days)}
       ELSE UNION {{<<day, h>> : h \in range(schedule.hour_start, schedule.hour_end)}
                   : day \in Range(schedule.days)}

\* A variant of get_time_slots that adds the early hours of the next day
\* for every schedule, spanning midnight or not.
get_time_slots_next_day(schedule) ==
    UNION {{<<day, h>> : h \in range(schedule.hour_start,
                                     IF schedule.spans_midnight THEN HOURS_PER_DAY
                                                                ELSE schedule.hour_end)}
             \cup {<<(day + 1) % DAYS_PER_WEEK, h>> : h \in range(0, schedule.hour_end)}
           : day \in Range(schedule.days)}

\* get_time_slots(schedule): the set of (day, hour) pairs
get_time_slots(schedule) ==
    IF schedule.spans_midnight
       THEN UNION {{<<day, h>> : h \in range(schedule.hour_start, HOURS_PER_DAY)}
                     \cup {<<(day + 1) % DAYS_PER_WEEK, h>> : h \in range(0, schedule.hour_end)}
                   : day \in Range(schedule.days)}
       ELSE UNION {{<<day, h>> : h \in range(schedule.hour_start, schedule.hour_end)}
                   : day \in Range(schedule.days)}

----------------------------------------------------------------------------
(* config_file_handler.py: check_overlaps *)

\* str(schedule): the days, the hours and the function name
schedule_str(s) == <<s.days, s.hour_start, s.hour_end, s.func_name>>

\* slot_map as the first loop of check_overlaps leaves it: each slot of some
\* schedule, with the indices of the schedules that hold it, in the order of
\* the list (indices count from 1 here, from 0 in the program).
slot_map(scheds) ==
    LET slots == [i \in DOMAIN scheds |-> get_time_slots(scheds[i])] IN
    [slot \in UNION {slots[i] : i \in DOMAIN scheds} |->
        SortedSeq({i \in DOMAIN scheds : slot \in slots[i]})]

\* A variant of the test of a conflict: three claimants are needed.
IsConflictAboveTwo(schedule_indices) == Len(schedule_indices) > 2

\* `len(schedule_indices) > 1`
IsConflict(schedule_indices) == Len(schedule_indices) > 1

\* A variant of the second loop: it leaves at the first conflict it finds.
ReportedFirstOnly(conflicts) ==
    IF conflicts = {} THEN {}
    ELSE {CHOOSE s \in conflicts :
            \A t \in conflicts : s[1] < t[1] \/ (s[1] = t[1] /\ s[2] <= t[2])}

\* The second loop visits every item of slot_map: each conflict is logged.
Reported(conflicts) == conflicts

\* check_overlaps(scheds): the value returned and the errors logged, one
\* for each conflicting slot, with the functions and the schedules named.
handler_check_overlaps(scheds) ==
    LET m == slot_map(scheds)
        conflicts == {slot \in DOMAIN m : IsConflict(m[slot])}
    IN  [ok |-> conflicts = {},
         log |-> {[slot |-> slot,
                   functions |-> [k \in DOMAIN m[slot] |-> scheds[m[slot][k]].func_name],
                   schedules |-> [k \in DOMAIN m[slot] |-> schedule_str(scheds[m[slot][k]])]]
                  : slot \in Reported(conflicts)}]

----------------------------------------------------------------------------
(* config_file_handler.py: load_config *)

\* A line of the config file is the sequence of its characters, the name of
\* a function being written as one item; " " stands for any blank.
RECURSIVE str_split_blank(_)
\* s.split(): the stretches of s without a blank
str_split_blank(s) ==
    IF s = <<>> THEN <<>>
    ELSE IF s[1] = " " THEN str_split_blank(Tail(s))
    ELSE LET k == SeqMin({i \in 1..(Len(s) + 1) : i = Len(s) + 1 \/ s[i] = " "})
         IN  << Slice(s, 1, k - 1) >> \o str_split_blank(Slice(s, k, Len(s)))

\* A variant of the test of the hours that lets hour_start be 24.
HoursValidLoose(hour_start, hour_end) ==
    0 <= hour_start /\ hour_start <= 24 /\ 0 <= hour_end /\ hour_end <= 24

\* A variant of the test of the hours that refuses equal hours.
HoursValidDistinct(hour_start, hour_end) ==
    /\ 0 <= hour_start /\ hour_start < 24 /\ 0 <= hour_end /\ hour_end <= 24
    /\ hour_start # hour_end

\* `0 <= hour_start < 24 and 0 <= hour_end <= 24`
HoursValid(hour_start, hour_end) ==
    0 <= hour_start /\ hour_start < 24 /\ 0 <= hour_end /\ hour_end <= 24

\* One pass of the loop over the lines: `continue` (a blank line or a
\* comment), `return False, []`, or the append of a schedule.
handler_line(text, function_map) ==
    LET line == str_strip(text) IN
    IF line = <<>> \/ line[1] = "#" THEN [kind |-> "continue"]
    ELSE LET parts == str_split_blank(line) IN
         IF Len(parts) # 4 THEN [kind |-> "return"]
         ELSE LET days == parse_days(parts[1])
                  hour_start == int(parts[2])
                  hour_end == int(parts[3])
                  func_name == parts[4]
              IN  IF days = None THEN [kind |-> "return"]
                  ELSE IF hour_start = None \/ hour_end = None THEN [kind |-> "return"]
                  ELSE IF ~HoursValid(hour_start[1], hour_end[1]) THEN [kind |-> "return"]
                  ELSE LET spans_midnight == hour_start[1] >= hour_end[1] IN
                       IF ~spans_midnight /\ hour_start[1] = hour_end[1]
                          THEN [kind |-> "return"]
                       ELSE IF func_name \notin function_map THEN [kind |-> "return"]
                       ELSE [kind |-> "append",
                             schedule |-> HandlerSchedule(days[1], hour_start[1], hour_end[1],
                                                          func_name[1], spans_midnight)]

\* A variant of the append: the new schedule goes to the front.
AppendedInFront(scheds, s) == << s >> \o scheds

\* schedules.append(...)
Appended(scheds, s) == Append(scheds, s)

RECURSIVE load_lines_lenient(_, _, _, _)
\* A variant of load_lines that passes over a line it cannot read.
load_lines_lenient(lines, i, scheds, function_map) ==
    IF i > Len(lines) THEN Some(scheds)
    ELSE LET r == handler_line(lines[i], function_map) IN
         IF r.kind = "append"
            THEN load_lines_lenient(lines, i + 1, Appended(scheds, r.schedule), function_map)
            ELSE load_lines_lenient(lines, i + 1, scheds, function_map)

RECURSIVE load_lines(_, _, _, _)
\* The loop over the lines of the file: None when a line makes load_config
\* return, else Some(the schedules appended).
load_lines(lines, i, scheds, function_map) ==
    IF i > Len(lines) THEN Some(scheds)
    ELSE LET r == handler_line(lines[i], function_map) IN
         IF r.kind = "continue" THEN load_lines(lines, i + 1, scheds, function_map)
         ELSE IF r.kind = "return" THEN None
         ELSE load_lines(lines, i + 1, Appended(scheds, r.schedule), function_map)

\* A variant of the test after the loop: no list is refused.
OverlapsIgnored(scheds) == TRUE

\* `check_overlaps(schedules)` after the loop
OverlapFree(scheds) == handler_check_overlaps(scheds).ok

\* load_config(config_file, function_map): config_file is None when the
\* file does not exist, else Some(its lines); function_map is given by its
\* keys, each a name of one item.
handler_load_config(config_file, function_map) ==
    IF config_file = None THEN [success |-> FALSE, schedules |-> <<>>]
    ELSE LET scheds == load_lines(config_file[1], 1, <<>>, function_map) IN
         IF scheds = None THEN [success |-> FALSE, schedules |-> <<>>]
         ELSE IF ~OverlapFree(scheds[1]) THEN [success |-> FALSE, schedules |-> <<>>]
         ELSE [success |-> TRUE, schedules |-> scheds[1]]

----------------------------------------------------------------------------
(* The state machine *)

Pools ==
    UNION {[1..n -> Funcs] : n \in 0..MaxPool}

Init ==
    /\ config \in ConfigFiles
    /\ AVAILABLE_DISPLAY_FUNCTIONS \in Pools
    /\ behaviour \in [Funcs -> Behaviours]
    /\ schedules = <<>>
    /\ last_update_time = None
    /\ current_schedule = None
    /\ now = 0
    /\ pc = "init"
    /\ exit_code = 0
    /\ attempted = {}
    /\ invoked = <<>>
    /\ gateway = <<>>
    /\ branch = "none"
    /\ call = NoCall

Env == <<config, AVAILABLE_DISPLAY_FUNCTIONS, behaviour>>

\* run(), lines 283-291: load the config or exit.
LoadConfig ==
    /\ pc = "init"
    /\ LET loaded == load_config(config) IN
       /\ schedules' = LoadedSchedules(schedules, loaded)
       /\ IF loaded = None
             THEN pc' = "exited" /\ exit_code' = 1
             ELSE pc' = "startup" /\ UNCHANGED exit_code
    /\ branch' = "load"
    /\ UNCHANGED <<call, Env, last_update_time, current_schedule, now, attempted, invoked, gateway>>

\* The caller's part after run_random_function returned image_path at time t:
\* `if image_path: self.update_display(image_path)`, `self.last_update_time = now`.
RandomReturned(image_path, t) ==
    \E ok \in Oks(image_path) :
        /\ gateway' = Calls(image_path, ok)
        /\ IF Fatal(image_path, ok)
              THEN /\ pc' = "exited" /\ exit_code' = 1
                   /\ UNCHANGED last_update_time
              ELSE /\ pc' = "sleep"
                   /\ last_update_time' = Some(t)
                   /\ UNCHANGED exit_code

\* The call of run_random_function at time t, up to the first test of the loop.
CallRandom(t) ==
    /\ attempted' = {}
    /\ invoked' = <<>>
    /\ IF LoopCond({}, AVAILABLE_DISPLAY_FUNCTIONS)
          THEN /\ pc' = "round"
               /\ gateway' = <<>>
               /\ UNCHANGED <<last_update_time, exit_code>>
          ELSE RandomReturned(None, t)

\* run(), lines 293-310: the startup step.
Startup ==
    /\ pc = "startup"
    /\ \E t \in 0..MaxStart :
        /\ now' = t
        /\ LET active_schedule == get_active_schedule(schedules, t) IN
           IF active_schedule # None
              THEN LET func == FUNCTION_MAP[active_schedule[1].function_name] IN
                   \E image_path \in run_display_function(func) :
                   \E ok \in Oks(image_path) :
                       /\ branch' = "startup_scheduled"
                       /\ invoked' = << Call(func, image_path) >>
                       /\ gateway' = Calls(image_path, ok)
                       /\ IF Fatal(image_path, ok)
                             THEN /\ pc' = "exited" /\ exit_code' = 1
                                  /\ UNCHANGED <<current_schedule, last_update_time>>
                             ELSE /\ pc' = "sleep"
                                  /\ current_schedule' =
                                        StartupCurrentSchedule(active_schedule, image_path,
                                                               current_schedule)
                                  /\ last_update_time' = Some(t)
                                  /\ UNCHANGED exit_code
                       /\ UNCHANGED attempted
              ELSE /\ branch' = "startup_random"
                   /\ CallRandom(t)
                   /\ UNCHANGED current_schedule
    /\ UNCHANGED <<call, Env, schedules>>

\* run(), lines 313-346: one pass of the main loop, after the sleep.
Tick ==
    /\ pc = "sleep"
    /\ \E dt \in 1..MaxStep :
        /\ now + dt <= MaxTime
        /\ now' = now + dt
        /\ LET t == now + dt
               active_schedule == get_active_schedule(schedules, t)
           IN
           IF EnterCond(active_schedule, current_schedule)
              THEN LET func == FUNCTION_MAP[active_schedule[1].function_name] IN
                   \E image_path \in run_display_function(func) :
                   \E ok \in Oks(image_path) :
                       /\ branch' = "enter"
                       /\ invoked' = << Call(func, image_path) >>
                       /\ gateway' = Calls(image_path, ok)
                       /\ IF Fatal(image_path, ok)
                             THEN /\ pc' = "exited" /\ exit_code' = 1
                                  /\ UNCHANGED <<current_schedule, last_update_time>>
                             ELSE /\ pc' = "sleep"
                                  /\ current_schedule' =
                                        EnterCurrentSchedule(active_schedule, image_path,
                                                             current_schedule)
                                  /\ last_update_time' = Some(t)
                                  /\ UNCHANGED exit_code
                       /\ UNCHANGED attempted
           ELSE IF ExitCond(active_schedule, current_schedule)
              THEN /\ branch' = "exit"
                   /\ current_schedule' = None
                   /\ CallRandom(t)
           ELSE IF RandomCond(active_schedule, last_update_time, t)
              THEN /\ branch' = "random"
                   /\ CallRandom(t)
                   /\ UNCHANGED current_schedule
           ELSE /\ branch' = "noop"
                /\ invoked' = <<>>
                /\ gateway' = <<>>
                /\ UNCHANGED <<pc, exit_code, current_schedule, last_update_time, attempted>>
    /\ UNCHANGED <<call, Env, schedules>>

\* run_random_function, lines 240-255: one pass of its loop, the next test
\* of the loop, and, when the function returns, the caller's part after it.
Draw ==
    /\ pc = "round"
    /\ \E i \in 1..Len(AVAILABLE_DISPLAY_FUNCTIONS) :
        LET func == AVAILABLE_DISPLAY_FUNCTIONS[i] IN
        IF AlreadyAttempted(func, attempted)
           THEN UNCHANGED <<attempted, invoked, gateway, pc, exit_code, last_update_time>>
           ELSE \E image_path \in run_display_function(func) :
                    /\ attempted' = attempted \cup {func}
                    /\ invoked' = Append(invoked, Call(func, image_path))
                    /\ IF IsNotNone(image_path)
                          THEN RandomReturned(image_path, now)
                          ELSE IF LoopCond(attempted \cup {func}, AVAILABLE_DISPLAY_FUNCTIONS)
                                  THEN UNCHANGED <<gateway, pc, exit_code, last_update_time>>
                                  ELSE RandomReturned(None, now)
    /\ UNCHANGED <<call, Env, schedules, current_schedule, now, branch>>

\* run(), lines 348-350: KeyboardInterrupt inside the loop's try block.
Interrupt ==
    /\ \/ pc = "sleep"
       \/ pc = "round" /\ branch \in {"exit", "random"}
    /\ pc' = "exited"
    /\ exit_code' = 0
    /\ branch' = "interrupt"
    /\ UNCHANGED <<call, Env, schedules, last_update_time, current_schedule, now,
                   attempted, invoked, gateway>>

Next == LoadConfig \/ Startup \/ Tick \/ Draw \/ Interrupt

Spec == Init /\ [][Next]_vars

\* Each draw of random.choice has positive probability: a draw that can
\* change the state is eventually made.
FairSpec == Spec /\ WF_vars(Draw)

----------------------------------------------------------------------------
(* The functions of config_file_handler.py, and the methods of             *)
(* EinkScheduler that run() calls once, each applied once to an input      *)

\* The characters of the day-specs tried
SpecChars == {"0", "1", "2", "6", "7", ",", "-", "*"}

\* The day-specs tried: every string of at most MaxSpecLen characters, and
\* the longer ones of the documentation and the tests.
DaySpecs ==
    UNION {[1..n -> SpecChars] : n \in 0..MaxSpecLen}
      \cup { <<"0", ",", "2", "-", "4">>, <<"1", ",", "3", "-", "5">>,
              <<"1", ",", "3", "-", "5", ",", "6">>, <<"0", ",", "2", ",", "4">>,
              <<"3", "-", "5", ",", "4", ",", "3">>, <<"1", "-", "2", "-", "3">>,
              <<"0", "-", "1", "0">>, <<"2", ",", "1", "-", "7">> }

\* The weekday lists of up to MaxDays days, sorted as parse_days returns them
DayLists == {SortedSeq(S) : S \in {T \in SUBSET (0..(DAYS_PER_WEEK - 1)) : Cardinality(T) <= MaxDays}}

\* The hours a schedule starts and ends at
HourStarts == {0, 5, 6, 12, 22, 23}
HourEnds == {0, 1, 6, 12, 23, 24}

\* The schedules given to is_active and get_time_slots
ScheduleInputs ==
    {HandlerSchedule(d, hs, he, "xkcd_todays_image", sm) :
        d \in DayLists, hs \in HourStarts, he \in HourEnds, sm \in BOOLEAN}

\* The schedules the lists given to check_overlaps are made of, built as
\* load_config builds them: spans_midnight is hour_start >= hour_end.
Loaded(days, hour_start, hour_end, func_name) ==
    HandlerSchedule(days, hour_start, hour_end, func_name, hour_start >= hour_end)

OverlapFamily ==
    {Loaded(<< 0 >>, 22, 6, "xkcd_todays_image"),
     Loaded(<< 1 >>, 3, 8, "xkcd_random_image"),
     Loaded(<< 1 >>, 6, 8, "xkcd_random_image"),
     Loaded(<< 0 >>, 20, 10, "xkcd_todays_image"),
     Loaded(<< 1 >>, 5, 3, "xkcd_random_image"),
     Loaded(<< 0, 1 >>, 9, 17, "xkcd_todays_image"),
     Loaded(<< 6 >>, 22, 6, "xkcd_random_image"),
     Loaded(<< 0 >>, 0, 6, "xkcd_todays_image"),
     Loaded(<< 0, 1, 2, 3, 4, 5, 6 >>, 5, 5, "xkcd_random_image"),
     Loaded(<< 2 >>, 9, 17, "xkcd_random_image"),
     Loaded(<< 0 >>, 6, 22, "xkcd_todays_image"),
     Loaded(<< 1 >>, 0, 24, "xkcd_todays_image")}

\* The lists of up to MaxScheds schedules
ScheduleLists == UNION {[1..n -> OverlapFamily] : n \in 0..MaxScheds}

\* A line of four fields, one blank between two fields
ConfigLine(days, hour_start, hour_end, func_name) ==
    days \o << " " >> \o hour_start \o << " " >> \o hour_end \o << " ", func_name >>

\* The lines the files given to load_config are made of
LineTexts ==
    {<< " " >>,
     << " ", "#", " ", "0", " ", "9" >>,
     ConfigLine(<< "0" >>, << "2", "2" >>, << "6" >>, "xkcd_todays_image"),
     ConfigLine(<< "1" >>, << "3" >>, << "8" >>, "xkcd_random_image"),
     ConfigLine(<< "1" >>, << "6" >>, << "8" >>, "xkcd_random_image"),
     << " " >> \o ConfigLine(<< "0", ",", "2", "-", "3" >>, << "0", "9", " " >>,
                             << "1", "7" >>, "xkcd_todays_image") \o << " " >>,
     ConfigLine(<< "*" >>, << "5" >>, << "5" >>, "xkcd_random_image"),
     ConfigLine(<< "3" >>, << "7" >>, << "7" >>, "xkcd_todays_image"),
     << "0", " ", "9", " ", "1", "7" >>,
     ConfigLine(<< "7" >>, << "9" >>, << "1", "7" >>, "xkcd_todays_image"),
     ConfigLine(<< "4" >>, << "*" >>, << "1", "7" >>, "xkcd_todays_image"),
     ConfigLine(<< "4" >>, << "2", "4" >>, << "6" >>, "xkcd_todays_image"),
     ConfigLine(<< "4" >>, << "9" >>, << "2", "5" >>, "xkcd_todays_image"),
     ConfigLine(<< "4" >>, << "-", "1" >>, << "6" >>, "xkcd_todays_image"),
     ConfigLine(<< "4" >>, << "9" >>, << "1", "7" >>, UnknownName)}

\* The config files: none, or up to MaxLines lines
HandlerFiles == {None} \cup {Some(l) : l \in UNION {[1..n -> LineTexts] : n \in 0..MaxLines}}

\* The keys of the function_map given to load_config
function_map_keys == {<< n >> : n \in DOMAIN FUNCTION_MAP}

\* The schedules the lists given to get_active_schedule are made of; some
\* share hours of a day, as no loaded list does.
EngineFamily ==
    {Schedule(0, 1, 3, "xkcd_todays_image"),
     Schedule(0, 2, 4, "xkcd_random_image"),
     Schedule(0, 1, 3, "xkcd_random_image"),
     Schedule(0, 0, 24, "xkcd_todays_image"),
     Schedule(1, 9, 17, "xkcd_random_image"),
     Schedule(6, 22, 24, "xkcd_todays_image")}

EngineLists == UNION {[1..n -> EngineFamily] : n \in 0..MaxScheds}

\* The clock readings of one week
WeekTimes == 0..(DAYS_PER_WEEK * HOURS_PER_DAY * UnitsPerHour - 1)

\* A data line with a field int() raises on: the field is None.
LineOf(d, hs, he, f) ==
    [kind |-> "data", nparts |-> 4, day_str |-> d,
     hour_start_str |-> hs, hour_end_str |-> he, func_name |-> f]

\* The config files given to a call of load_config: those the engine is
\* started on, and files with a line of the formats of config_file_handler.py
\* (a day field `*`, `0-4` or `0,2`, hours that span midnight) or with a
\* number out of range.
EngineFiles ==
    ConfigFiles \cup
    { File(<<Line(0, 1, 2, "xkcd_todays_image"),
             LineOf(None, Some(9), Some(17), "xkcd_random_image")>>),
      File(<<Line(3, 22, 6, "xkcd_todays_image")>>),
      File(<<Line(3, 5, 5, "xkcd_todays_image")>>),
      File(<<Line(7, 9, 17, "xkcd_todays_image")>>),
      File(<<Line(0 - 1, 9, 17, "xkcd_todays_image")>>),
      File(<<Line(2, 9, 25, "xkcd_todays_image")>>),
      File(<<Line(2, 24, 24, "xkcd_todays_image")>>),
      File(<<LineOf(Some(2), None, Some(17), "xkcd_todays_image")>>),
      File(<<[kind |-> "data", nparts |-> 3, day_str |-> None,
              hour_start_str |-> None, hour_end_str |-> None, func_name |-> ""]>>),
      File(<<Line(6, 23, 24, "xkcd_random_image"), Comment,
             Line(6, 0, 23, "xkcd_todays_image")>>) }

\* The lists self.schedules can hold before a call of load_config
HeldLists == {<<>>, << Schedule(2, 9, 17, "xkcd_todays_image") >>}

Pending(fn, arg) == [fn |-> fn, arg |-> arg, done |-> FALSE, result |-> None]

Returned(c, result) == [c EXCEPT !.done = TRUE, !.result = result]

HandlerInit ==
    /\ call \in {Pending("parse_days", s) : s \in DaySpecs}
               \cup {Pending("is_active", s) : s \in ScheduleInputs}
               \cup {Pending("get_time_slots", s) : s \in ScheduleInputs}
               \cup {Pending("check_overlaps", l) : l \in ScheduleLists}
               \cup {Pending("load_config", f) : f \in HandlerFiles}
               \cup {Pending("get_active_schedule", l) : l \in EngineLists}
               \cup {Pending("EinkScheduler.load_config", [held |-> h, file |-> f]) :
                        h \in HeldLists, f \in EngineFiles}
    /\ config = File(<<>>)
    /\ AVAILABLE_DISPLAY_FUNCTIONS = <<>>
    /\ behaviour = [f \in Funcs |-> "Failure"]
    /\ schedules = <<>>
    /\ last_update_time = None
    /\ current_schedule = None
    /\ now = 0
    /\ pc = "handler"
    /\ exit_code = 0
    /\ attempted = {}
    /\ invoked = <<>>
    /\ gateway = <<>>
    /\ branch = "none"

Engine == <<config, AVAILABLE_DISPLAY_FUNCTIONS, behaviour, schedules, last_update_time,
            current_schedule, now, pc, exit_code, attempted, invoked, gateway, branch>>

\* A call of parse_days
ParseDays ==
    /\ call.fn = "parse_days" /\ ~call.done
    /\ call' = Returned(call, parse_days(call.arg))
    /\ UNCHANGED Engine

\* Schedule.is_active, called at every weekday and hour of the week
IsActive ==
    /\ call.fn = "is_active" /\ ~call.done
    /\ call' = Returned(call,
                  Some([dt \in (0..(DAYS_PER_WEEK - 1)) \X (0..(HOURS_PER_DAY - 1)) |->
                           handler_is_active(call.arg, dt[1], dt[2])]))
    /\ UNCHANGED Engine

\* A call of get_time_slots
GetTimeSlots ==
    /\ call.fn = "get_time_slots" /\ ~call.done
    /\ call' = Returned(call, Some(get_time_slots(call.arg)))
    /\ UNCHANGED Engine

\* A call of check_overlaps
CheckOverlaps ==
    /\ call.fn = "check_overlaps" /\ ~call.done
    /\ call' = Returned(call, Some(handler_check_overlaps(call.arg)))
    /\ UNCHANGED Engine

\* A call of load_config
HandlerLoadConfig ==
    /\ call.fn = "load_config" /\ ~call.done
    /\ call' = Returned(call, Some(handler_load_config(call.arg, function_map_keys)))
    /\ UNCHANGED Engine

\* EinkScheduler.get_active_schedule, called at every clock reading of a week
GetActiveSchedule ==
    /\ call.fn = "get_active_schedule" /\ ~call.done
    /\ call' = Returned(call, Some([dt \in WeekTimes |-> get_active_schedule(call.arg, dt)]))
    /\ UNCHANGED Engine

\* A call of EinkScheduler.load_config
EngineLoadConfig ==
    /\ call.fn = "EinkScheduler.load_config" /\ ~call.done
    /\ call' = Returned(call, Some(engine_load_config(call.arg.held, call.arg.file)))
    /\ UNCHANGED Engine

HandlerNext ==
    \/ ParseDays \/ IsActive \/ GetTimeSlots \/ CheckOverlaps \/ HandlerLoadConfig
    \/ GetActiveSchedule \/ EngineLoadConfig

HandlerSpec == HandlerInit /\ [][HandlerNext]_vars

----------------------------------------------------------------------------
(* Properties *)

pool == AVAILABLE_DISPLAY_FUNCTIONS

\* The steps of run() that run a fallback round
RoundBranches == {"startup_random", "exit", "random"}

\* The round of the current step has returned to run().
RoundDone == branch \in RoundBranches /\ pc \in {"sleep", "exited"}

\* The round of the current step returned None.
ReportsFailure ==
    RoundDone /\ (invoked = <<>> \/ invoked[Len(invoked)].result = None)

\* A step of Tick: the only step that moves the clock of a sleeping engine.
TickStep == pc = "sleep" /\ now' # now

\* The last gateway call of the current step raised.
GatewayRaised == gateway # <<>> /\ gateway[Len(gateway)].raised

\* A display function that returns a usable result at every call
Succeeds(f) == behaviour[f] \in {"ImagePath", "ShutdownSignal"}

HasSucceeding == \E f \in Range(pool) : Succeeds(f)

\* C1 (as claimed): a fallback round ends once every distinct action of the
\* pool has been attempted: while run_random_function is still drawing, some
\* action of the pool has not been attempted yet.
C1_RoundEndsWhenAllAttempted ==
    pc = "round" => attempted # Range(pool)

\* C2: in a round over a pool that holds an action that always succeeds, at
\* most as many actions are invoked as the pool has distinct actions, every
\* invocation but the last failed, the round returns the result of the last
\* action invoked, which succeeded, and that result (not a failure) is what
\* run() shows; under fair draws the round ends.
C2_Safety ==
    (branch \in RoundBranches /\ HasSucceeding) =>
        /\ Len(invoked) <= Cardinality(Range(pool))
        /\ \A k \in 1..(Len(invoked) - 1) : invoked[k].result = None
        /\ pc = "round" => \A k \in 1..Len(invoked) : invoked[k].result = None
        /\ RoundDone =>
              /\ invoked # <<>>
              /\ LET last == invoked[Len(invoked)] IN
                    /\ last.result # None
                    /\ last.result \in Returns(last.func)
                    /\ Len(gateway) = 1
                    /\ gateway[1].op = "update"
                    /\ gateway[1].arg = last.result

C2_SuccessEndsRound ==
    /\ []C2_Safety
    /\ (pc = "round" /\ HasSucceeding) ~> (pc # "round")

\* C2 witness: a round over a pool with a repeated action ended with the
\* result of the second action invoked, after the first one failed.
C2_Witness ==
    /\ RoundDone
    /\ Len(pool) > Cardinality(Range(pool))
    /\ Len(invoked) = 2
    /\ behaviour[invoked[1].func] = "Failure"
    /\ Succeeds(invoked[2].func)
    /\ gateway # <<>>

\* C3: within one step of run() no action is invoked twice; when the round
\* returns None every distinct action of the pool has been invoked exactly
\* once, each failed, and no gateway call is made.
C3_EachActionOnce ==
    /\ \A j, k \in 1..Len(invoked) : j # k => invoked[j].func # invoked[k].func
    /\ ReportsFailure =>
          /\ {invoked[k].func : k \in 1..Len(invoked)} = Range(pool)
          /\ Len(invoked) = Cardinality(Range(pool))
          /\ \A k \in 1..Len(invoked) : invoked[k].result = None
          /\ gateway = <<>>

\* C3 witness: a round that tried two distinct actions and reported failure.
C3_Witness ==
    ReportsFailure /\ Len(invoked) = 2 /\ pc = "sleep"

\* C4 (as claimed): a tick that finds the clock still inside the window that
\* held the previous reading of the clock invokes no action (the action of
\* the window was invoked when the stay began); a tick that finds the
\* window over and no schedule active takes the exit branch and leaves
\* current_schedule None.
C4_OncePerStay ==
    [][TickStep =>
        LET before == get_active_schedule(schedules, now)
            after == get_active_schedule(schedules, now')
        IN  /\ (before # None /\ after = before) => invoked' = <<>>
            /\ (before # None /\ after = None) =>
                   (branch' = "exit" /\ current_schedule' = None)]_vars

\* C5: a tick at which a schedule is active that is not current_schedule
\* invokes the action bound to that schedule and nothing else, and, unless
\* the gateway call was fatal, leaves current_schedule equal to it and
\* last_update_time equal to the tick's time.
C5_Enter ==
    [][TickStep =>
        LET a == get_active_schedule(schedules, now')
        IN  (a # None /\ a # current_schedule) =>
                /\ Len(invoked') = 1
                /\ invoked'[1].func = FUNCTION_MAP[a[1].function_name]
                /\ pc' # "exited" =>
                      /\ current_schedule' = a
                      /\ last_update_time' = Some(now')]_vars

\* C5 witness: the engine entered a window although the action failed.
C5_Witness ==
    /\ branch = "enter" /\ pc = "sleep"
    /\ invoked[1].result = None
    /\ current_schedule = get_active_schedule(schedules, now)
    /\ last_update_time = Some(now)

\* C6: a tick at which no schedule is active while current_schedule is set
\* sets current_schedule to None and calls run_random_function in the same
\* tick, however recent last_update_time is; when the round has returned
\* and the gateway call was not fatal, last_update_time is the tick's time.
C6_Exit ==
    /\ [][TickStep =>
            ((get_active_schedule(schedules, now') = None /\ current_schedule # None) =>
                /\ branch' = "exit"
                /\ current_schedule' = None
                /\ attempted' = {}
                /\ Len(pool) > 0 => (pc' = "round" /\ invoked' = <<>>))]_vars
    /\ []((branch = "exit" /\ pc = "sleep") =>
            (last_update_time = Some(now) /\ current_schedule = None))

\* C6 witness: an exit tick whose round invoked an action and returned.
C6_Witness ==
    /\ branch = "exit" /\ pc = "sleep"
    /\ invoked # <<>>
    /\ last_update_time = Some(now)
    /\ current_schedule = None

\* C7: with current_schedule None and no schedule active, a tick calls
\* run_random_function exactly when last_update_time is unset or at least
\* RANDOM_UPDATE_INTERVAL_MINUTES old, and otherwise does nothing; when the
\* round has returned and the gateway call was not fatal, last_update_time
\* is the tick's time.
C7_RandomWhenDue ==
    /\ [][TickStep =>
            ((get_active_schedule(schedules, now') = None /\ current_schedule = None) =>
                IF last_update_time = None \/ now' - last_update_time[1] >= RandomInterval
                   THEN /\ branch' = "random"
                        /\ attempted' = {}
                        /\ Len(pool) > 0 => (pc' = "round" /\ invoked' = <<>>)
                   ELSE /\ branch' = "noop"
                        /\ invoked' = <<>> /\ gateway' = <<>>
                        /\ pc' = "sleep"
                        /\ UNCHANGED last_update_time)]_vars
    /\ []((branch = "random" /\ pc = "sleep") => last_update_time = Some(now))

\* C7 witness: a random update ran at a tick and its round returned.
C7_Witness ==
    /\ branch = "random" /\ pc = "sleep"
    /\ invoked # <<>>
    /\ last_update_time = Some(now)

\* C8: when the action of a schedule fails, at startup or at a tick, the
\* step makes no gateway call, invokes no other action and starts no
\* fallback round.
C8_ScheduledFailureIsNoOp ==
    (branch \in {"enter", "startup_scheduled"} /\ invoked[1].result = None) =>
        /\ gateway = <<>>
        /\ Len(invoked) = 1
        /\ pc = "sleep"

\* C8 witness: the action of a schedule failed at a tick.
C8_Witness ==
    branch = "enter" /\ invoked[1].result = None /\ pc = "sleep"

\* C9: once a gateway call has raised, the process has exited with a
\* non-zero status, the call was made once, and no further step is taken;
\* the process exits only on a failed load, an interrupt or a gateway call
\* that raised, never on the failure of an action.
C9_GatewayFailureIsFatal ==
    /\ [](GatewayRaised => (pc = "exited" /\ exit_code # 0 /\ Len(gateway) = 1))
    /\ [](pc = "exited" => (branch \in {"load", "interrupt"} \/ GatewayRaised))
    /\ [][~GatewayRaised]_vars

\* C9 witness: update_display raised at a tick, after ticks that went well.
C9_Witness ==
    pc = "exited" /\ GatewayRaised /\ branch = "enter" /\ exit_code = 1

\* C10 (as claimed): when an action invoked in the current step returned
\* the ShutdownSignal sentinel, the step's gateway call is clear, and update
\* is not called.
C10_ShutdownClears ==
    \A k \in 1..Len(invoked) :
        (invoked[k].result = Some(ShutdownSignal) /\ pc # "round") =>
            /\ Len(gateway) = 1
            /\ gateway[1].op = clear_display(TRUE).op

----------------------------------------------------------------------------
(* Properties of config_file_handler.py *)

\* The call of fn has been made.
Done(fn) == call.fn = fn /\ call.done

\* The text s writes a number: it is a non-empty string of digits.
AllDigits(s) == Len(s) > 0 /\ \A i \in 1..Len(s) : IsDigit(s[i])

RECURSIVE Written(_, _)
\* The number a string of digits writes, read from the left: acc is the
\* number written by the digits read so far.
Written(s, acc) ==
    IF s = <<>> THEN acc
    ELSE Written(Tail(s), 10 * acc + DigitVal(Head(s)))

\* The components of a day-spec: its maximal stretches without a comma, as
\* pairs <<first, last>> of positions (last = first - 1: an empty one).
Components(s) ==
    {c \in (1..(Len(s) + 1)) \X (0..Len(s)) :
        /\ c[1] <= c[2] + 1
        /\ \A i \in c[1]..c[2] : s[i] # ","
        /\ (c[1] = 1 \/ s[c[1] - 1] = ",")
        /\ (c[2] = Len(s) \/ s[c[2] + 1] = ",")}

\* The days a component denotes: {D} for D, {D1..D2} for D1-D2, with
\* 0 <= D1 <= D2 <= 6. Denotes(t) holds that set, and is empty when t
\* denotes nothing.
Denotes(t) ==
    (IF AllDigits(t) /\ Written(t, 0) <= 6 THEN {{Written(t, 0)}} ELSE {})
      \cup
    { Written(Slice(t, 1, k - 1), 0)..Written(Slice(t, k + 1, Len(t)), 0) :
        k \in {j \in 1..Len(t) :
                 /\ t[j] = "-"
                 /\ AllDigits(Slice(t, 1, j - 1))
                 /\ AllDigits(Slice(t, j + 1, Len(t)))
                 /\ Written(Slice(t, 1, j - 1), 0) <= Written(Slice(t, j + 1, Len(t)), 0)
                 /\ Written(Slice(t, j + 1, Len(t)), 0) <= 6} }

\* The list lst holds exactly the members of S, each once, in rising order.
ListsSet(lst, S) ==
    /\ Range(lst) = S
    /\ \A i \in 1..(Len(lst) - 1) : lst[i] < lst[i + 1]

\* C20: parse_days returns all of 0..6 for "*"; for any other day-spec all
\* of whose components denote days, the union of those days, each once,
\* whatever the order of the components; and it fails, returning nothing,
\* when some component denotes no days (a day above 6, a range that runs
\* backwards, a token that is no integer).
C20_ParseDays ==
    Done("parse_days") =>
        LET s == call.arg
            texts == {Slice(s, c[1], c[2]) : c \in Components(s)}
        IN  IF s = << "*" >>
               THEN call.result # None /\ ListsSet(call.result[1], 0..6)
            ELSE IF \A t \in texts : Denotes(t) # {}
               THEN /\ call.result # None
                    /\ ListsSet(call.result[1], UNION (UNION {Denotes(t) : t \in texts}))
            ELSE call.result = None

\* C20 witness: a list of a day and a range was parsed.
C20_Witness ==
    /\ Done("parse_days")
    /\ call.arg = <<"1", ",", "3", "-", "5", ",", "6">>
    /\ call.result = Some(<<1, 3, 4, 5, 6>>)

\* C15: for every schedule and every (weekday, hour), is_active is true
\* exactly when, not spanning midnight, the weekday is one of the schedule's
\* and hour_start <= hour < hour_end, or, spanning midnight, the weekday is
\* one of the schedule's and hour >= hour_start, or the weekday before is one
\* of the schedule's and hour < hour_end.
C15_IsActive ==
    Done("is_active") =>
        LET s == call.arg
            active == call.result[1]
        IN  \A d \in 0..6, h \in 0..23 :
                active[<<d, h>>] <=>
                    \/ ~s.spans_midnight /\ (\E i \in DOMAIN s.days : s.days[i] = d)
                                         /\ s.hour_start <= h /\ h < s.hour_end
                    \/ s.spans_midnight /\ (\E i \in DOMAIN s.days : s.days[i] = d)
                                        /\ h >= s.hour_start
                    \/ s.spans_midnight /\ (\E i \in DOMAIN s.days : (s.days[i] + 1) % 7 = d)
                                        /\ h < s.hour_end

\* C15 witness: a schedule of Sunday 22-6 is found active on Monday at 05:00
\* and idle on Monday at 06:00.
C15_Witness ==
    /\ Done("is_active")
    /\ call.arg.days = << 6 >> /\ call.arg.spans_midnight
    /\ call.arg.hour_start = 22 /\ call.arg.hour_end = 6
    /\ call.result[1][<<0, 5>>] /\ ~call.result[1][<<0, 6>>]

\* C16: get_time_slots returns, for each day of the schedule, the slots
\* (day, h) with hour_start <= h < hour_end when not spanning, and when
\* spanning the slots (day, h) with hour_start <= h < 24 and the slots
\* ((day+1) mod 7, h) with 0 <= h < hour_end; and no other slot.
C16_TimeSlots ==
    Done("get_time_slots") =>
        LET s == call.arg
            slots == call.result[1]
            In(d) == \E i \in DOMAIN s.days : s.days[i] = d
        IN  /\ slots \subseteq (0..6) \X (0..23)
            /\ \A d \in 0..6, h \in 0..23 :
                <<d, h>> \in slots <=>
                    IF s.spans_midnight
                       THEN \/ In(d) /\ s.hour_start <= h
                            \/ In((d + 6) % 7) /\ h < s.hour_end
                       ELSE In(d) /\ s.hour_start <= h /\ h < s.hour_end

\* C16 witness: Sunday 22-6 occupies Sunday 22, 23 and Monday 0..5
C16_Witness ==
    /\ Done("get_time_slots")
    /\ call.arg.days = << 6 >> /\ call.arg.spans_midnight
    /\ call.arg.hour_start = 22 /\ call.arg.hour_end = 6
    /\ call.result[1] = {<<6, 22>>, <<6, 23>>} \cup {<<0, h>> : h \in 0..5}

\* The slot (d, h) is one that schedule s occupies.
Occupies(s, d, h) ==
    LET In(x) == \E i \in DOMAIN s.days : s.days[i] = x IN
    IF s.spans_midnight
       THEN (In(d) /\ s.hour_start <= h) \/ (In((d + 6) % 7) /\ h < s.hour_end)
       ELSE In(d) /\ s.hour_start <= h /\ h < s.hour_end

\* The schedules of list l that occupy slot (d, h)
Claimants(l, d, h) == {i \in DOMAIN l : Occupies(l[i], d, h)}

\* C17: check_overlaps returns True if and only if no (weekday, hour) slot
\* is occupied by two different schedules of the list.
C17_CheckOverlaps ==
    Done("check_overlaps") =>
        (call.result[1].ok <=>
            \A d \in 0..6, h \in 0..23 : Cardinality(Claimants(call.arg, d, h)) <= 1)

\* C17 witness: Monday 22-6 and Tuesday 3-8 are rejected (Tuesday 03:00 is
\* held twice).
C17_Witness ==
    /\ Done("check_overlaps")
    /\ call.arg = << Loaded(<< 0 >>, 22, 6, "xkcd_todays_image"),
                     Loaded(<< 1 >>, 3, 8, "xkcd_random_image") >>
    /\ ~call.result[1].ok

\* C18: for each slot that two or more schedules of the list occupy, an
\* error is logged that names the slot and every schedule occupying it.
C18_EveryConflictReported ==
    Done("check_overlaps") =>
        \A d \in 0..6, h \in 0..23 :
            Cardinality(Claimants(call.arg, d, h)) >= 2 =>
                \E e \in call.result[1].log :
                    /\ e.slot = <<d, h>>
                    /\ \A i \in Claimants(call.arg, d, h) :
                          /\ \E k \in DOMAIN e.schedules :
                                e.schedules[k] = schedule_str(call.arg[i])
                          /\ \E k \in DOMAIN e.functions :
                                e.functions[k] = call.arg[i].func_name

\* C18 witness: Monday 22-6 and Tuesday 3-8 share three slots, and three
\* errors are logged.
C18_Witness ==
    /\ Done("check_overlaps")
    /\ call.arg = << Loaded(<< 0 >>, 22, 6, "xkcd_todays_image"),
                     Loaded(<< 1 >>, 3, 8, "xkcd_random_image") >>
    /\ {e.slot : e \in call.result[1].log} = {<<1, 3>>, <<1, 4>>, <<1, 5>>}

\* The weekday lists of the two schedules of a pair share no day.
DisjointDays(l) ==
    /\ Len(l) = 2
    /\ \A i \in DOMAIN l[1].days, j \in DOMAIN l[2].days : l[1].days[i] # l[2].days[j]

\* C19 as stated: two schedules whose weekday sets are disjoint have
\* disjoint slot sets, and check_overlaps accepts the pair.
C19_DisjointDaysAccepted ==
    (Done("check_overlaps") /\ DisjointDays(call.arg)) =>
        /\ get_time_slots(call.arg[1]) \cap get_time_slots(call.arg[2]) = {}
        /\ call.result[1].ok

\* C19, amended: two schedules, neither of which spans midnight, whose
\* weekday sets are disjoint have disjoint slot sets, and check_overlaps
\* accepts the pair.
C19_DisjointDaysSameDayAccepted ==
    (/\ Done("check_overlaps") /\ DisjointDays(call.arg)
     /\ ~call.arg[1].spans_midnight /\ ~call.arg[2].spans_midnight) =>
        /\ get_time_slots(call.arg[1]) \cap get_time_slots(call.arg[2]) = {}
        /\ call.result[1].ok

\* C19 witness: Monday 0-6 and Tuesday 3-8 are accepted.
C19_Witness ==
    /\ Done("check_overlaps")
    /\ call.arg = << Loaded(<< 0 >>, 0, 6, "xkcd_todays_image"),
                     Loaded(<< 1 >>, 3, 8, "xkcd_random_image") >>
    /\ DisjointDays(call.arg)
    /\ call.result[1].ok

\* The words of a line: its maximal stretches without a blank, as pairs
\* <<first, last>> of positions.
Words(line) ==
    {w \in (1..Len(line)) \X (1..Len(line)) :
        /\ w[1] <= w[2]
        /\ \A i \in w[1]..w[2] : line[i] # " "
        /\ (w[1] = 1 \/ line[w[1] - 1] = " ")
        /\ (w[2] = Len(line) \/ line[w[2] + 1] = " ")}

\* The k-th word of a line, from the left
Word(line, k) ==
    LET ws == Words(line)
        w == CHOOSE v \in ws : Cardinality({u \in ws : u[1] < v[1]}) = k - 1
    IN  Slice(line, w[1], w[2])

\* A line that holds a schedule: it is neither blank nor a comment.
Counted(line) ==
    /\ Words(line) # {}
    /\ Word(line, 1)[1] # "#"

\* The days a day-spec denotes, if all its components denote days
DaySpecOk(s) ==
    \/ s = << "*" >>
    \/ \A c \in Components(s) : Denotes(Slice(s, c[1], c[2])) # {}

DaySpecDays(s) ==
    IF s = << "*" >> THEN 0..6
    ELSE UNION (UNION {Denotes(Slice(s, c[1], c[2])) : c \in Components(s)})

\* A well-formed line: four fields, a day-spec that denotes days, a start
\* hour in [0,23], an end hour in [0,24], an action of the catalog.
WellFormed(line) ==
    /\ Cardinality(Words(line)) = 4
    /\ DaySpecOk(Word(line, 1))
    /\ AllDigits(Word(line, 2)) /\ Written(Word(line, 2), 0) <= 23
    /\ AllDigits(Word(line, 3)) /\ Written(Word(line, 3), 0) <= 24
    /\ \E n \in DOMAIN FUNCTION_MAP : Word(line, 4) = << n >>

\* The schedule a well-formed line writes
Denoted(line) ==
    LET hs == Written(Word(line, 2), 0)
        he == Written(Word(line, 3), 0)
    IN  [days |-> SortedSeq(DaySpecDays(Word(line, 1))),
         hour_start |-> hs, hour_end |-> he,
         func_name |-> Word(line, 4)[1], spans_midnight |-> (hs >= he)]

\* The positions of the lines of a file that hold a schedule, in file order
CountedLines(lines) == SortedSeq({i \in DOMAIN lines : Counted(lines[i])})

\* The slots a schedule occupies
Occupied(s) == {dh \in (0..6) \X (0..23) : Occupies(s, dh[1], dh[2])}

\* Two schedule lines of the file, both well formed, share a slot.
LinesOverlap(lines) ==
    LET ok == {i \in DOMAIN lines : Counted(lines[i]) /\ WellFormed(lines[i])}
        slots == [i \in ok |-> Occupied(Denoted(lines[i]))]
    IN  \E i, j \in ok : i # j /\ slots[i] \cap slots[j] # {}

\* The file can be loaded: it exists, its schedule lines are well formed
\* and no two of them share a slot.
Loadable(file) ==
    /\ file # None
    /\ \A i \in DOMAIN file[1] : Counted(file[1][i]) => WellFormed(file[1][i])
    /\ ~LinesOverlap(file[1])

\* C11: after a successful load, at every (weekday, hour) of the week at
\* most one schedule of the list returned is active.
C11_AtMostOneActive ==
    (Done("load_config") /\ call.result[1].success) =>
        \A d \in 0..6, h \in 0..23 :
            Cardinality({i \in DOMAIN call.result[1].schedules :
                           handler_is_active(call.result[1].schedules[i], d, h)}) <= 1

\* C11 witness: Monday 22-6 and Tuesday 6-8 were loaded; the first is the
\* one active on Tuesday at 05:00, the second on Tuesday at 06:00.
C11_Witness ==
    /\ Done("load_config") /\ call.result[1].success
    /\ Len(call.result[1].schedules) = 2
    /\ handler_is_active(call.result[1].schedules[1], 1, 5)
    /\ handler_is_active(call.result[1].schedules[2], 1, 6)

\* C12: when a schedule line of the file is malformed (field count, day-spec,
\* hours, action not in the catalog), or two schedule lines share a slot,
\* load_config reports failure and returns no schedule.
C12_AllOrNothing ==
    (Done("load_config") /\ ~Loadable(call.arg)) =>
        /\ ~call.result[1].success
        /\ call.result[1].schedules = <<>>

\* C12 witness: a valid line, then a line with day 7; nothing is loaded.
C12_Witness ==
    /\ Done("load_config") /\ call.arg # None
    /\ Len(call.arg[1]) = 2
    /\ WellFormed(call.arg[1][1])
    /\ Counted(call.arg[1][2]) /\ ~DaySpecOk(Word(call.arg[1][2], 1))
    /\ ~call.result[1].success /\ call.result[1].schedules = <<>>

\* C13: a file whose N schedule lines are well formed and share no slot is
\* loaded: N schedules are returned, the i-th built from the i-th schedule
\* line; blank lines and comments add nothing.
C13_LoadsInFileOrder ==
    (Done("load_config") /\ Loadable(call.arg)) =>
        LET counted == CountedLines(call.arg[1]) IN
        /\ call.result[1].success
        /\ Len(call.result[1].schedules) = Len(counted)
        /\ \A i \in DOMAIN counted :
              call.result[1].schedules[i] = Denoted(call.arg[1][counted[i]])

\* C13 witness: two schedule lines gave two schedules, Tuesday's before
\* Monday's as in the file.
C13_Witness ==
    /\ Done("load_config") /\ Loadable(call.arg)
    /\ Len(CountedLines(call.arg[1])) = 2
    /\ Len(call.result[1].schedules) = 2
    /\ call.result[1].schedules[1].days = << 1 >>
    /\ call.result[1].schedules[2].days = << 0 >>

\* C14: every schedule of a successful load has a non-empty set of weekdays
\* within 0..6, hour_start in [0,23], hour_end in [0,24], spans_midnight
\* exactly when hour_start >= hour_end, and hour_start < hour_end when it
\* does not span midnight.
C14_LoadedScheduleShape ==
    (Done("load_config") /\ call.result[1].success) =>
        \A i \in DOMAIN call.result[1].schedules :
            LET s == call.result[1].schedules[i] IN
            /\ s.days # <<>> /\ \A k \in DOMAIN s.days : s.days[k] \in 0..6
            /\ s.hour_start \in 0..23
            /\ s.hour_end \in 0..24
            /\ s.spans_midnight <=> (s.hour_start >= s.hour_end)
            /\ ~s.spans_midnight => s.hour_start < s.hour_end

\* C14 witness: a schedule with equal hours was loaded as one that spans
\* midnight, beside one that does not.
C14_Witness ==
    /\ Done("load_config") /\ call.result[1].success
    /\ \E i \in DOMAIN call.result[1].schedules :
          /\ call.result[1].schedules[i].spans_midnight
          /\ call.result[1].schedules[i].hour_start = call.result[1].schedules[i].hour_end

----------------------------------------------------------------------------
(* Further properties of scheduler.py *)

\* A data line the engine's loader must refuse: other than four fields, a
\* field that is no integer, a day outside 0..6, an hour outside its range,
\* hour_start not below hour_end, a function that FUNCTION_MAP does not hold.
Refused(line) ==
    \/ line.nparts # 4
    \/ line.day_str = <<>> \/ line.hour_start_str = <<>> \/ line.hour_end_str = <<>>
    \/ line.day_str[1] \notin 0..6
    \/ line.hour_start_str[1] \notin 0..23
    \/ line.hour_end_str[1] \notin 0..24
    \/ line.hour_start_str[1] >= line.hour_end_str[1]
    \/ line.func_name \notin {"xkcd_todays_image", "xkcd_random_image"}

\* A config the engine cannot load: the file is missing, a data line is
\* refused, or two data lines share an hour of a day.
BadConfig(file) ==
    \/ ~file.exists
    \/ \E i \in DOMAIN file.lines : file.lines[i].kind = "data" /\ Refused(file.lines[i])
    \/ \E i, j \in DOMAIN file.lines :
          /\ i # j
          /\ file.lines[i].kind = "data" /\ file.lines[j].kind = "data"
          /\ ~Refused(file.lines[i]) /\ ~Refused(file.lines[j])
          /\ file.lines[i].day_str = file.lines[j].day_str
          /\ \E h \in 0..23 :
                /\ file.lines[i].hour_start_str[1] <= h /\ h < file.lines[i].hour_end_str[1]
                /\ file.lines[j].hour_start_str[1] <= h /\ h < file.lines[j].hour_end_str[1]

\* C21: when the config load fails at startup, the engine exits with a
\* status other than 0, having invoked no action and made no gateway call.
C21_LoadFailureIsFatal ==
    (pc # "init" /\ BadConfig(config)) =>
        /\ pc = "exited" /\ exit_code # 0
        /\ invoked = <<>> /\ gateway = <<>>
        /\ attempted = {} /\ branch = "load"

\* C21 witness: the engine has exited on a config that names an unknown
\* function, with a pool that holds an action.
C21_Witness ==
    /\ pc = "exited" /\ branch = "load" /\ exit_code = 1
    /\ config = File(<<Line(0, 1, 2, UnknownName)>>)
    /\ pool # <<>>

\* C22 (as claimed): the startup step ends as a tick from (current_schedule
\* = None, last_update_time unset) would: with a schedule active, its action
\* has been invoked once and current_schedule is that schedule and
\* last_update_time the start time, whether or not the action succeeded;
\* with none active, one fallback round has run and last_update_time is the
\* start time.
C22_StartupLikeTick ==
    /\ (branch = "startup_scheduled" /\ pc = "sleep") =>
          /\ Len(invoked) = 1
          /\ current_schedule = get_active_schedule(schedules, now)
          /\ last_update_time = Some(now)
    /\ (branch = "startup_random" /\ pc = "sleep") =>
          /\ current_schedule = None
          /\ last_update_time = Some(now)

\* C23: a tick at which the active schedule is current_schedule, or at
\* which no schedule is active, current_schedule is None and less than
\* RandomInterval has passed since last_update_time, invokes no action,
\* makes no gateway call and leaves current_schedule and last_update_time
\* as they were.
C23_NoOpTick ==
    [][TickStep =>
        LET a == get_active_schedule(schedules, now')
        IN  (\/ a # None /\ a = current_schedule
             \/ /\ a = None /\ current_schedule = None
                /\ last_update_time # None
                /\ now' - last_update_time[1] < RandomInterval) =>
                /\ invoked' = <<>> /\ gateway' = <<>>
                /\ pc' = "sleep" /\ attempted' = attempted
                /\ current_schedule' = current_schedule
                /\ last_update_time' = last_update_time]_vars

\* C23 witness: a tick inside the window of current_schedule, later than
\* the update that entered it, did nothing.
C23_Witness ==
    /\ branch = "noop" /\ pc = "sleep"
    /\ current_schedule # None
    /\ current_schedule = get_active_schedule(schedules, now)
    /\ last_update_time # Some(now)
    /\ now - last_update_time[1] >= RandomInterval

\* The current step is a pass of the loop that has run to its end.
TickDone == branch \in {"enter", "exit", "random", "noop"} /\ pc = "sleep"

\* C26: after every tick that ends without a fatal error, current_schedule
\* is the schedule active at the tick's time, None when none is.
C26_CurrentIsActive ==
    TickDone => current_schedule = get_active_schedule(schedules, now)

\* C26 witness: a tick entered the second window of the config although its
\* action failed, and current_schedule is that window's schedule.
C26_Witness ==
    /\ TickDone /\ branch = "enter"
    /\ Len(schedules) = 2 /\ current_schedule = Some(schedules[2])
    /\ invoked[1].result = None

\* C27: a fallback round runs only at a time at which no schedule is active.
C27_NoFallbackWhileScheduled ==
    branch \in RoundBranches => get_active_schedule(schedules, now) = None

\* C27 witness: a round has invoked an action under a config that holds
\* schedules, at a time none of them is active.
C27_Witness ==
    /\ branch = "random" /\ invoked # <<>>
    /\ schedules # <<>>

\* C28: a fallback round that failed leaves last_update_time at the tick's
\* time, and while no schedule is active and current_schedule is None no
\* round starts before RandomInterval has passed since last_update_time.
C28_FailedRoundNotRetried ==
    /\ []((ReportsFailure /\ pc = "sleep") => last_update_time = Some(now))
    /\ [][TickStep =>
            ((/\ get_active_schedule(schedules, now') = None
              /\ current_schedule = None
              /\ last_update_time # None
              /\ now' - last_update_time[1] < RandomInterval) =>
                 (branch' = "noop" /\ invoked' = <<>> /\ pc' = "sleep"))]_vars

\* C28 witness: with a pool whose actions all fail, the tick after the
\* failed round did nothing.
C28_Witness ==
    /\ branch = "noop" /\ current_schedule = None
    /\ pool # <<>> /\ \A f \in Range(pool) : behaviour[f] = "Failure"
    /\ last_update_time # None /\ now - last_update_time[1] < RandomInterval

----------------------------------------------------------------------------
(* Further properties of config_file_handler.py *)

\* The schedule lines of a file that are well formed and whose two hours
\* are equal
EqualHourLines(lines) ==
    {i \in DOMAIN lines :
        /\ Counted(lines[i]) /\ WellFormed(lines[i])
        /\ Written(Word(lines[i], 2), 0) = Written(Word(lines[i], 3), 0)}

\* C29: a line whose start hour equals its end hour is no reason for
\* load_config to fail: a file that holds such a line is loaded unless
\* another line is malformed or two lines share a slot, and the schedule of
\* such a line spans midnight and occupies 24 slots for each of its days,
\* the hours from the start hour on of the day and the hours before it of
\* the following day.
C29_EqualHoursSpanMidnight ==
    (Done("load_config") /\ call.arg # None /\ EqualHourLines(call.arg[1]) # {}) =>
        /\ call.result[1].success <=> Loadable(call.arg)
        /\ \A k \in DOMAIN call.result[1].schedules :
              LET s == call.result[1].schedules[k]
                  slots == get_time_slots(s)
              IN  s.hour_start = s.hour_end =>
                      /\ s.spans_midnight
                      /\ Cardinality(slots) = 24 * Len(s.days)
                      /\ slots = UNION {{<<s.days[i], h>> : h \in s.hour_start..23}
                                          \cup {<<(s.days[i] + 1) % 7, h>> :
                                                   h \in 0..(s.hour_start - 1)}
                                        : i \in DOMAIN s.days}

\* C29 witness: the line `3 7 7` was loaded: Thursday from 07:00 and Friday
\* before 07:00.
C29_Witness ==
    /\ Done("load_config") /\ call.result[1].success
    /\ Len(call.result[1].schedules) = 1
    /\ call.result[1].schedules[1].days = << 3 >>
    /\ call.result[1].schedules[1].hour_start = 7
    /\ call.result[1].schedules[1].hour_end = 7
    /\ <<4, 6>> \in get_time_slots(call.result[1].schedules[1])
    /\ <<4, 7>> \notin get_time_slots(call.result[1].schedules[1])

----------------------------------------------------------------------------
(* Properties of the methods of EinkScheduler *)

\* C24: get_active_schedule returns the first schedule of the list, in list
\* order, that is_active at the given time, and None exactly when no
\* schedule of the list is.
C24_FirstActive ==
    Done("get_active_schedule") =>
        \A dt \in WeekTimes :
            LET l == call.arg
                r == call.result[1][dt]
            IN  IF \A i \in DOMAIN l : ~is_active(l[i], dt)
                   THEN r = None
                   ELSE \E i \in DOMAIN l :
                            /\ is_active(l[i], dt)
                            /\ \A j \in 1..(i - 1) : ~is_active(l[j], dt)
                            /\ r = Some(l[i])

\* C24 witness: of two schedules active on Monday at 02:00 the first of the
\* list was returned, and the second at 03:00, when the first is over.
C24_Witness ==
    /\ Done("get_active_schedule")
    /\ call.arg = << Schedule(0, 1, 3, "xkcd_todays_image"),
                     Schedule(0, 2, 4, "xkcd_random_image") >>
    /\ call.result[1][2 * UnitsPerHour] = Some(call.arg[1])
    /\ call.result[1][3 * UnitsPerHour] = Some(call.arg[2])
    /\ call.result[1][4 * UnitsPerHour] = None

\* C25: when EinkScheduler.load_config returns False (file missing, line
\* refused, function unknown, overlap), self.schedules is the list held
\* before the call; when it returns True, self.schedules is the list the
\* file writes, whatever was held.
C25_FailedLoadKeepsSchedules ==
    Done("EinkScheduler.load_config") =>
        LET held == call.arg.held
            file == call.arg.file
            r == call.result[1]
            data == SortedSeq({i \in DOMAIN file.lines : file.lines[i].kind = "data"})
        IN  /\ r.ret <=> ~BadConfig(file)
            /\ ~r.ret => r.schedules = held
            /\ r.ret =>
                  /\ Len(r.schedules) = Len(data)
                  /\ \A k \in DOMAIN data :
                        LET line == file.lines[data[k]] IN
                        r.schedules[k] = [day_of_week |-> line.day_str[1],
                                          hour_start |-> line.hour_start_str[1],
                                          hour_end |-> line.hour_end_str[1],
                                          function_name |-> line.func_name]

\* C25 witness: a load that failed on an overlap left the schedule held.
C25_Witness ==
    /\ Done("EinkScheduler.load_config")
    /\ call.arg.held # <<>>
    /\ call.arg.file = File(<<Line(0, 0, 2, "xkcd_todays_image"),
                              Line(0, 1, 3, "xkcd_random_image")>>)
    /\ ~call.result[1].ret
    /\ call.result[1].schedules = call.arg.held

\* C30: EinkScheduler.load_config fails on a file with a data line whose
\* hour_start is not below its hour_end or whose day field is not one
\* integer of 0..6; every schedule it loads has hour_start < hour_end and
\* one weekday of 0..6, and is active on that weekday only.
C30_EngineSchedulesWithinOneDay ==
    Done("EinkScheduler.load_config") =>
        LET file == call.arg.file
            r == call.result[1]
        IN  /\ (file.exists /\ \E i \in DOMAIN file.lines :
                    LET line == file.lines[i] IN
                    /\ line.kind = "data"
                    /\ \/ line.day_str = <<>>
                       \/ line.day_str # <<>> /\ line.day_str[1] \notin 0..6
                       \/ /\ line.hour_start_str # <<>> /\ line.hour_end_str # <<>>
                          /\ line.hour_start_str[1] >= line.hour_end_str[1])
                  => ~r.ret
            /\ r.ret =>
                  \A k \in DOMAIN r.schedules :
                      LET s == r.schedules[k] IN
                      /\ s.hour_start < s.hour_end
                      /\ s.day_of_week \in 0..6
                      /\ \A dt \in WeekTimes : is_active(s, dt) => weekday(dt) = s.day_of_week
                      /\ \E dt \in WeekTimes : is_active(s, dt)

\* C30 witness: a file with a line `3 22 6` was refused.
C30_Witness ==
    /\ Done("EinkScheduler.load_config")
    /\ call.arg.file = File(<<Line(3, 22, 6, "xkcd_todays_image")>>)
    /\ ~call.result[1].ret

====
